---- MODULE Spec2Model ----
(***************************************************************************)
(* Fleet management system: a navigation graph with vertex / lane          *)
(* occupancy, reserved paths and destination reservations (NavGraph), the  *)
(* robots' state machine (Robot) and the fleet manager that spawns robots, *)
(* assigns navigation tasks and updates every robot once per frame.        *)
(*                                                                         *)
(* Units: positions are screen pixels on one axis (the graphs used here    *)
(* are laid out on a line), time is counted in tenths of a second, so a    *)
(* robot with move_speed = 10 px/s covers delta_time pixels in a frame of  *)
(* delta_time tenths.                                                      *)
(***************************************************************************)
EXTENDS Integers, Sequences, FiniteSets, TLC

VARIABLES graph, vertex_occ, lane_occ, reserved_paths, destination_reservations,
          lane_reservations, robots, next_robot_id, ret, exc, trail, waited,
          lane_occupancy, ticked, vertex_occupancy, definition

vars == <<graph, vertex_occ, lane_occ, reserved_paths, destination_reservations,
          lane_reservations, robots, next_robot_id, ret, exc, trail, waited,
          lane_occupancy, ticked, vertex_occupancy, definition>>

\* Python's None, for "no robot" / "no vertex".
None == -1

\* Robot state constants.
IDLE == "idle"
MOVING == "moving"
WAITING == "waiting"
CHARGING == "charging"
COMPLETED == "completed"

\* Robot.move_speed, pixels per second.
move_speed == 10

\* Tenths of a second in a second (the time unit of the model).
TimeScale == 10

\* Minimum following interval of a time-windowed lane reservation (tenths).
SAFETY_GAP == 10

\* Waiting timeout of the robot state machine, in ticks.
WAIT_TIMEOUT == 10

\* ---- bounds ----
MaxRobots == 2
\* Frame times (tenths of a second) a tick of the run loop may carry.
DeltaTimes == {5, 10}

\* Frame time of an iteration of the run loop that was held up (the frame
\* time is the wall-clock time since the previous iteration).
StallTimes == {30}

\* The robot ids a call may name: those of a fleet of MaxRobots robots and
\* one more, for the specification of a larger fleet and for calls that name
\* an id that was never issued.
RobotIds == 0 .. MaxRobots

\* Vertex indices past the end of the vertices list of a graph.
OutOfRange(g) == {g.nv, g.nv + 1}

\* ---- navigation graphs (NavGraph.load_from_json builds vertices, lanes) ----
\* Junction: the chain 0->1->2->3 with a return lane 3->1 and a branch 2->4.
Junction ==
  [ name  |-> "junction",
    nv    |-> 5,
    lanes |-> << <<0, 1>>, <<1, 2>>, <<2, 3>>, <<3, 1>>, <<2, 4>> >>,
    x     |-> << 0, 10, 15, 5, 20 >> ]

\* Corridor: the bidirectional corridor 0<->1<->2.
Corridor ==
  [ name  |-> "corridor",
    nv    |-> 3,
    lanes |-> << <<0, 1>>, <<1, 0>>, <<1, 2>>, <<2, 1>> >>,
    x     |-> << 0, 10, 20 >> ]

\* Line: the one-way line 0->1->2.
Line ==
  [ name  |-> "line",
    nv    |-> 3,
    lanes |-> << <<0, 1>>, <<1, 2>> >>,
    x     |-> << 0, 10, 20 >> ]

\* Segment: the single lane 0->1.
Segment ==
  [ name  |-> "segment",
    nv    |-> 2,
    lanes |-> << <<0, 1>> >>,
    x     |-> << 0, 10 >> ]

\* Yard: the junction with a siding 4->5 behind the branch.
Yard ==
  [ name  |-> "yard",
    nv    |-> 6,
    lanes |-> << <<0, 1>>, <<1, 2>>, <<2, 3>>, <<3, 1>>, <<2, 4>>, <<4, 5>> >>,
    x     |-> << 0, 10, 15, 5, 20, 30 >> ]

Graphs == {Junction, Corridor, Line, Segment}

VertexIds(g) == 0 .. (g.nv - 1)
LaneIdx(g) == 1 .. Len(g.lanes)
LanePairs(g) == {g.lanes[i] : i \in LaneIdx(g)}

\* NavGraph.get_scaled_position: screen position of a vertex.
get_scaled_position(g, v) == g.x[v + 1]

Abs(n) == IF n < 0 THEN -n ELSE n
Min2(a, b) == IF a < b THEN a ELSE b
SeqToSet(s) == {s[i] : i \in 1 .. Len(s)}
\* Python's path[1:]
Tail1(s) == IF Len(s) = 0 THEN <<>> ELSE Tail(s)

\* ---- NavGraph.load_from_json ----
\* A graph definition is the content of the JSON file: form tells whether it
\* is well-formed ("ok") or how it is malformed, vertices lists the x
\* coordinate of each vertex entry and lanes the (from, to) index pairs of
\* the lane entries.
Forms == {"ok", "not_json", "no_levels", "vertex_arity", "lane_arity"}

\* The definition a loaded graph g came from.
DefinitionOf(g) == [form |-> "ok", vertices |-> g.x, lanes |-> g.lanes]

\* The vertex lists and lane lists of the definitions that are loaded: up to
\* MaxVertices vertices, up to MaxLanes lanes whose endpoints range over the
\* indices 0 .. MaxVertices (index MaxVertices is past the end of every list).
MaxVertices == 3
MaxLanes == 2
VertexLists == { [i \in 1 .. n |-> 10 * (i - 1)] : n \in 1 .. MaxVertices }
LaneEnds == (0 .. MaxVertices) \X (0 .. MaxVertices)
LaneLists == UNION { [1 .. n -> LaneEnds] : n \in 0 .. MaxLanes }
Definitions == [form : Forms, vertices : VertexLists, lanes : LaneLists]

\* No graph: the NavGraph object before / without a successful load.
Unloaded == [name |-> "unloaded", nv |-> 0, lanes |-> <<>>, x |-> <<>>]

\* NavGraph.load_from_json: a malformed definition raises (json.load, the
\* 'levels' / 'vertices' / 'lanes' keys, the unpacking of a vertex or lane
\* entry) and the exception is re-raised; otherwise every vertex entry is
\* appended to vertices and every lane entry to lanes, and add_edge takes any
\* endpoints: a lane's indices are not compared with the vertex list.
load_from_json(d) ==
  IF d.form # "ok"
  THEN [ok |-> FALSE, graph |-> Unloaded]
  ELSE [ok |-> TRUE,
        graph |-> [name |-> "loaded", nv |-> Len(d.vertices),
                   lanes |-> d.lanes, x |-> d.vertices]]

\* ---- shortest path (helpers.find_path_astar): minimum number of lanes, ----
\* ---- ties broken towards the lowest vertex index                        ----
Succs(g, v) == {w \in VertexIds(g) : <<v, w>> \in LanePairs(g)}

\* Vertices from which goal is reachable in at most k lanes.
RECURSIVE Within(_, _, _)
Within(g, goal, k) ==
  IF k = 0 THEN {goal}
  ELSE LET prev == Within(g, goal, k - 1)
       IN  prev \cup {v \in VertexIds(g) : Succs(g, v) \cap prev # {}}

Reachable(g, s, goal) == s \in Within(g, goal, g.nv)

\* Number of lanes of a shortest route from v to goal (v must reach goal).
HopsTo(g, v, goal) ==
  CHOOSE k \in 0 .. g.nv :
      /\ v \in Within(g, goal, k)
      /\ \A j \in 0 .. (k - 1) : v \notin Within(g, goal, j)

RECURSIVE RouteFrom(_, _, _)
RouteFrom(g, v, goal) ==
  IF v = goal THEN <<v>>
  ELSE LET h == HopsTo(g, v, goal)
           cands == {w \in Succs(g, v) :
                        Reachable(g, w, goal) /\ HopsTo(g, w, goal) = h - 1}
           nxt == CHOOSE w \in cands : \A u \in cands : w <= u
       IN  <<v>> \o RouteFrom(g, nxt, goal)

\* The search result for every pair of vertices of every graph; the lanes of
\* a loaded graph never change, so the search is a function of (g, s, goal).
\* The empty sequence stands for "no path" (None / []).
Routes ==
  [g \in Graphs \cup {Yard} |->
     [s \in VertexIds(g) |->
        [goal \in VertexIds(g) |->
           IF Reachable(g, s, goal) THEN RouteFrom(g, s, goal) ELSE <<>>]]]

find_path_astar(g, s, goal) ==
  IF s \in VertexIds(g) /\ goal \in VertexIds(g)
  THEN Routes[g][s][goal]
  ELSE <<>>

\* ---- NavGraph occupancy and reservation operations ----

\* reserve_vertex without the holder test: the caller always gets the vertex.
reserve_vertex_overwrite(g, vo, vertex_id, robot_id) ==
  IF vertex_id >= g.nv THEN [ok |-> FALSE, vertex_occ |-> vo]
  ELSE [ok |-> TRUE, vertex_occ |-> [vo EXCEPT ![vertex_id] = robot_id]]

\* reserve_vertex that grants a free vertex only: the holder is denied too.
reserve_vertex_holder_denied(g, vo, vertex_id, robot_id) ==
  IF vertex_id >= g.nv THEN [ok |-> FALSE, vertex_occ |-> vo]
  ELSE IF vo[vertex_id] = None
       THEN [ok |-> TRUE, vertex_occ |-> [vo EXCEPT ![vertex_id] = robot_id]]
       ELSE [ok |-> FALSE, vertex_occ |-> vo]

\* NavGraph.reserve_vertex: grants a free vertex, idempotent for the holder.
reserve_vertex(g, vo, vertex_id, robot_id) ==
  IF vertex_id >= g.nv THEN [ok |-> FALSE, vertex_occ |-> vo]
  ELSE IF vo[vertex_id] = None
       THEN [ok |-> TRUE, vertex_occ |-> [vo EXCEPT ![vertex_id] = robot_id]]
       ELSE [ok |-> (vo[vertex_id] = robot_id), vertex_occ |-> vo]

\* "vertex_id in self.vertices": vertices is a list of dicts, so an integer
\* index is never a member of it.
VertexIdInVertices(g, vertex_id) == FALSE

\* NavGraph.release_vertex.
release_vertex(g, vo, vertex_id, robot_id) ==
  IF VertexIdInVertices(g, vertex_id) /\ vo[vertex_id] = robot_id
  THEN [ok |-> TRUE, vertex_occ |-> [vo EXCEPT ![vertex_id] = None]]
  ELSE [ok |-> FALSE, vertex_occ |-> vo]

\* Index of the first lane of the lanes list joining from_vertex to to_vertex
\* (0 when there is none).
FirstLane(g, from_vertex, to_vertex) ==
  LET m == {i \in LaneIdx(g) : g.lanes[i] = <<from_vertex, to_vertex>>}
  IN  IF m = {} THEN 0 ELSE CHOOSE i \in m : \A j \in m : i <= j

\* NavGraph.reserve_lane (is_blocked is never set, so it is always False).
reserve_lane(g, lo, from_vertex, to_vertex, robot_id) ==
  LET i == FirstLane(g, from_vertex, to_vertex)
  IN  IF i = 0 THEN [ok |-> FALSE, lane_occ |-> lo]
      ELSE IF lo[i] = None
           THEN [ok |-> TRUE, lane_occ |-> [lo EXCEPT ![i] = robot_id]]
           ELSE [ok |-> (lo[i] = robot_id), lane_occ |-> lo]

\* release_lane without the owner test: any robot frees the lane.
release_lane_any(g, lo, from_vertex, to_vertex, robot_id) ==
  LET m == {i \in LaneIdx(g) : g.lanes[i] = <<from_vertex, to_vertex>>}
  IN  IF m = {} THEN [ok |-> FALSE, lane_occ |-> lo]
      ELSE LET i == CHOOSE k \in m : \A j \in m : k <= j
           IN  [ok |-> TRUE, lane_occ |-> [lo EXCEPT ![i] = None]]

\* NavGraph.release_lane.
release_lane(g, lo, from_vertex, to_vertex, robot_id) ==
  LET m == {i \in LaneIdx(g) :
               g.lanes[i] = <<from_vertex, to_vertex>> /\ lo[i] = robot_id}
  IN  IF m = {} THEN [ok |-> FALSE, lane_occ |-> lo]
      ELSE LET i == CHOOSE k \in m : \A j \in m : k <= j
           IN  [ok |-> TRUE, lane_occ |-> [lo EXCEPT ![i] = None]]

\* NavGraph.is_vertex_available: a vertex with a destination reservation is
\* available to the reserving robot alone, and the answer is given there;
\* otherwise an occupied vertex is available to its occupant alone; otherwise
\* the vertex is available unless it lies on another robot's reserved path.
is_vertex_available(g, dr, vo, rp, vertex_id, robot_id) ==
  IF dr[vertex_id] # None THEN dr[vertex_id] = robot_id
  ELSE IF vo[vertex_id] # None THEN vo[vertex_id] = robot_id
  ELSE ~ \E p \in DOMAIN rp :
            p # robot_id /\ vertex_id \in SeqToSet(rp[p])

\* The destination test shared by get_shortest_path and reserve_path:
\* end_vertex is reserved as a destination by a robot other than robot_id.
DestinationTaken(dr, end_vertex, robot_id) ==
  /\ end_vertex \in DOMAIN dr
  /\ dr[end_vertex] # None /\ dr[end_vertex] # robot_id

\* get_shortest_path without the test of the destination reservation.
get_shortest_path_unclaimed(g, dr, start_vertex, end_vertex, robot_id) ==
  find_path_astar(g, start_vertex, end_vertex)

\* NavGraph.get_shortest_path; <<>> is None.
get_shortest_path(g, dr, start_vertex, end_vertex, robot_id) ==
  IF robot_id # None /\ DestinationTaken(dr, end_vertex, robot_id)
  THEN <<>>
  ELSE find_path_astar(g, start_vertex, end_vertex)

\* "set(path[1:]).intersection(set(other_path[1:]))" for some other robot.
PathConflict(rp, robot_id, path) ==
  \E other_id \in DOMAIN rp :
      /\ other_id # robot_id
      /\ SeqToSet(Tail1(path)) \cap SeqToSet(Tail1(rp[other_id])) # {}

\* The first reserve_path of the class (shadowed by the second): no path
\* conflict test, and it reports failure after it has recorded the path and
\* the destination when the first vertex is held by another robot.
reserve_path_first(g, rp, dr, vo, robot_id, path) ==
  IF path = <<>>
  THEN [ok |-> FALSE, reserved_paths |-> rp,
        destination_reservations |-> dr, vertex_occ |-> vo]
  ELSE LET end_vertex == path[Len(path)]
           rv == reserve_vertex(g, vo, path[1], robot_id)
       IN  IF DestinationTaken(dr, end_vertex, robot_id)
           THEN [ok |-> FALSE, reserved_paths |-> rp,
                 destination_reservations |-> dr, vertex_occ |-> vo]
           ELSE [ok |-> rv.ok,
                 reserved_paths |-> [rp EXCEPT ![robot_id] = path],
                 destination_reservations |->
                     [dr EXCEPT ![end_vertex] = robot_id],
                 vertex_occ |-> rv.vertex_occ]

\* reserve_path that drops the robot's earlier destination reservations when
\* it records the new one.
reserve_path_reclaiming(g, rp, dr, vo, robot_id, path) ==
  LET unchanged == [ok |-> FALSE, reserved_paths |-> rp,
                    destination_reservations |-> dr, vertex_occ |-> vo]
  IN  IF path = <<>> THEN unchanged
      ELSE LET end_vertex == path[Len(path)]
           IN  IF DestinationTaken(dr, end_vertex, robot_id) THEN unchanged
               ELSE IF PathConflict(rp, robot_id, path) THEN unchanged
               ELSE [ok |-> TRUE,
                     reserved_paths |-> [rp EXCEPT ![robot_id] = path],
                     destination_reservations |->
                         [v \in DOMAIN dr |->
                             IF v = end_vertex THEN robot_id
                             ELSE IF dr[v] = robot_id THEN None
                             ELSE dr[v]],
                     vertex_occ |->
                         reserve_vertex(g, vo, path[1], robot_id).vertex_occ]

\* NavGraph.reserve_path (the second definition of the class, the one in
\* effect): refuses before it changes anything, ignores the result of
\* reserve_vertex.
reserve_path(g, rp, dr, vo, robot_id, path) ==
  LET unchanged == [ok |-> FALSE, reserved_paths |-> rp,
                    destination_reservations |-> dr, vertex_occ |-> vo]
  IN  IF path = <<>> THEN unchanged
      ELSE LET end_vertex == path[Len(path)]
           IN  IF DestinationTaken(dr, end_vertex, robot_id) THEN unchanged
               ELSE IF PathConflict(rp, robot_id, path) THEN unchanged
               ELSE [ok |-> TRUE,
                     reserved_paths |-> [rp EXCEPT ![robot_id] = path],
                     destination_reservations |->
                         [dr EXCEPT ![end_vertex] = robot_id],
                     vertex_occ |->
                         reserve_vertex(g, vo, path[1], robot_id).vertex_occ]

\* ---- Robot ----

\* Robot.__init__ (fields); the start vertex is reserved by Spawn.
NewRobot(g, start_vertex) ==
  [ current_vertex     |-> start_vertex,
    state              |-> IDLE,
    path               |-> <<>>,
    current_path_index |-> 0,
    target_vertex      |-> None,
    position           |-> get_scaled_position(g, start_vertex),
    target_position    |-> get_scaled_position(g, start_vertex),
    paused             |-> FALSE ]

\* The occupancy test reading the wrong key: no vertex ever counts as occupied.
DestinationOccupiedNever(g, vo, destination_vertex) ==
  \E v \in VertexIds(g) : FALSE /\ vo[v] # None /\ v = destination_vertex

\* "vertex.get('occupying_robot') is not None and vertex['id'] == destination"
DestinationOccupied(g, vo, destination_vertex) ==
  \E v \in VertexIds(g) : vo[v] # None /\ v = destination_vertex

\* assign_task without the state test of its first line: a busy robot takes
\* a new task.
assign_task_any_state(g, rb, rp, dr, vo, robot_id, destination_vertex) ==
  LET refused == [result |-> "false", robot |-> rb, reserved_paths |-> rp,
                  destination_reservations |-> dr, vertex_occ |-> vo]
      path == get_shortest_path(g, dr, rb.current_vertex, destination_vertex,
                                robot_id)
      res == reserve_path(g, rp, dr, vo, robot_id, path)
      moving == [rb EXCEPT !.path = path,
                           !.current_path_index = 0,
                           !.target_vertex = destination_vertex,
                           !.state = MOVING]
  IN  IF DestinationOccupied(g, vo, destination_vertex) THEN refused
      ELSE IF path = <<>> \/ ~res.ok THEN refused
      ELSE [result |-> IF Len(path) < 2 THEN "raise" ELSE "true",
            robot |-> IF Len(path) < 2 THEN moving
                      ELSE [moving EXCEPT !.target_position =
                                get_scaled_position(g, path[2])],
            reserved_paths |-> res.reserved_paths,
            destination_reservations |-> res.destination_reservations,
            vertex_occ |-> res.vertex_occ]

\* assign_task as it is without the reservation logic: the route is taken
\* and recorded whoever occupies or has claimed the vertices on it.
assign_task_unchecked(g, rb, rp, dr, vo, robot_id, destination_vertex) ==
  LET path == find_path_astar(g, rb.current_vertex, destination_vertex)
      moving == [rb EXCEPT !.path = path,
                           !.current_path_index = 0,
                           !.target_vertex = destination_vertex,
                           !.state = MOVING]
  IN  IF rb.state \notin {IDLE, COMPLETED} \/ Len(path) < 2
      THEN [result |-> "false", robot |-> rb, reserved_paths |-> rp,
            destination_reservations |-> dr, vertex_occ |-> vo]
      ELSE [result |-> "true",
            robot |-> [moving EXCEPT !.target_position =
                          get_scaled_position(g, path[2])],
            reserved_paths |-> [rp EXCEPT ![robot_id] = path],
            destination_reservations |->
                [dr EXCEPT ![destination_vertex] = robot_id],
            vertex_occ |-> reserve_vertex(g, vo, path[1], robot_id).vertex_occ]

\* Robot.assign_task. result is "true", "false" or "raise" (IndexError at
\* path[1] when the path is the single current vertex, raised after the
\* path was reserved and the robot's fields were set).
assign_task(g, rb, rp, dr, vo, robot_id, destination_vertex) ==
  LET refused == [result |-> "false", robot |-> rb, reserved_paths |-> rp,
                  destination_reservations |-> dr, vertex_occ |-> vo]
      path == get_shortest_path(g, dr, rb.current_vertex, destination_vertex,
                                robot_id)
      res == reserve_path(g, rp, dr, vo, robot_id, path)
      moving == [rb EXCEPT !.path = path,
                           !.current_path_index = 0,
                           !.target_vertex = destination_vertex,
                           !.state = MOVING]
  IN  IF rb.state \notin {IDLE, COMPLETED} THEN refused
      ELSE IF DestinationOccupied(g, vo, destination_vertex) THEN refused
      ELSE IF path = <<>> THEN refused
      ELSE IF ~res.ok
           THEN [result |-> "false", robot |-> rb,
                 reserved_paths |-> res.reserved_paths,
                 destination_reservations |-> res.destination_reservations,
                 vertex_occ |-> res.vertex_occ]
      ELSE [result |-> IF Len(path) < 2 THEN "raise" ELSE "true",
            robot |-> IF Len(path) < 2 THEN moving
                      ELSE [moving EXCEPT !.target_position =
                                get_scaled_position(g, path[2])],
            reserved_paths |-> res.reserved_paths,
            destination_reservations |-> res.destination_reservations,
            vertex_occ |-> res.vertex_occ]

\* pause_movement that pauses every robot of the fleet.
pause_movement_fleet(rbs, robot_id) ==
  [r \in DOMAIN rbs |-> [rbs[r] EXCEPT !.paused = TRUE, !.state = "paused"]]

\* Robot.pause_movement on robot robot_id of the table rbs: the flag is set
\* and the state becomes the literal "paused".
pause_movement(rbs, robot_id) ==
  [rbs EXCEPT ![robot_id] = [@ EXCEPT !.paused = TRUE, !.state = "paused"]]

\* resume_movement without the test of the paused flag.
resume_movement_unguarded(rbs, robot_id) ==
  [rbs EXCEPT ![robot_id] = [@ EXCEPT !.paused = FALSE, !.state = MOVING]]

\* Robot.resume_movement on robot robot_id of the table rbs: nothing on a
\* robot that is not paused; otherwise the flag is cleared and the state
\* becomes MOVING.
resume_movement(rbs, robot_id) ==
  IF ~rbs[robot_id].paused THEN rbs
  ELSE [rbs EXCEPT ![robot_id] = [@ EXCEPT !.paused = FALSE, !.state = MOVING]]

\* ---- TrafficManager: lane occupancy by lane index ----
\* lane_occupancy maps a lane index to the robot on it; None stands for an
\* index that is not a key of the dict.

\* TrafficManager.occupy_lane.
occupy_lane(occ, lane_idx, robot_id) ==
  IF occ[lane_idx] # None /\ occ[lane_idx] # robot_id
  THEN [ok |-> FALSE, lane_occupancy |-> occ]
  ELSE [ok |-> TRUE, lane_occupancy |-> [occ EXCEPT ![lane_idx] = robot_id]]

\* TrafficManager.release_lane.
tm_release_lane(occ, lane_idx, robot_id) ==
  IF occ[lane_idx] # None /\ occ[lane_idx] = robot_id
  THEN [ok |-> TRUE, lane_occupancy |-> [occ EXCEPT ![lane_idx] = None]]
  ELSE [ok |-> FALSE, lane_occupancy |-> occ]

\* can_use_lane that answers true on an unoccupied lane only.
can_use_lane_free_only(occ, robot_id, lane_idx) ==
  occ[lane_idx] = None

\* TrafficManager.can_use_lane(robot, lane_idx), robot_id being robot.id.
can_use_lane(occ, robot_id, lane_idx) ==
  occ[lane_idx] = None \/ occ[lane_idx] = robot_id

\* ---- TrafficManager: vertex occupancy by vertex index ----
\* vertex_occupancy maps a vertex index to the list of the robots on it; the
\* empty list stands for an index that is not a key of the dict.

\* TrafficManager.occupy_vertex: the robot is appended to the vertex's list
\* unless it is already in it; nothing is returned.
occupy_vertex(vocc, vertex_idx, robot_id) ==
  IF robot_id \in SeqToSet(vocc[vertex_idx]) THEN vocc
  ELSE [vocc EXCEPT ![vertex_idx] = Append(@, robot_id)]

\* TrafficManager.release_vertex: the robot is removed from the vertex's
\* list when it is in it; nothing is returned.
tm_release_vertex(vocc, vertex_idx, robot_id) ==
  [vocc EXCEPT ![vertex_idx] = SelectSeq(@, LAMBDA r : r # robot_id)]

\* TrafficManager.check_conflicts(robots) reads other_robot.current_lane_idx,
\* an attribute no Robot has, as soon as a lane of the table is occupied by a
\* robot of the list and the list holds another robot: AttributeError.
\* Otherwise it only logs.
check_conflicts(occ, rbs) ==
  [raised |-> \E lane \in DOMAIN occ :
                 /\ occ[lane] \in DOMAIN rbs
                 /\ \E other \in DOMAIN rbs : other # occ[lane]]

\* ---- TrafficManager: time-windowed lane reservation ----

NoReservation == [robot |-> None, left |-> 0]

\* reserve_lane that books the lane until arrival_time only.
tm_reserve_lane_no_gap(lr, robot_id, from_vertex, to_vertex, eta) ==
  LET lane == <<from_vertex, to_vertex>>
  IN  IF lane \notin DOMAIN lr THEN [ok |-> FALSE, lane_reservations |-> lr]
      ELSE IF lr[lane].robot # None /\ lr[lane].robot # robot_id
              /\ lr[lane].left > 0
           THEN [ok |-> FALSE, lane_reservations |-> lr]
           ELSE [ok |-> TRUE,
                 lane_reservations |->
                     [lr EXCEPT ![lane] = [robot |-> robot_id,
                                           left |-> eta]]]

\* TrafficManager.reserve_lane(robot_id, from, to, arrival_time): books the
\* lane until arrival_time + SAFETY_GAP; denied while another robot's window
\* is active. A window is kept as the time left until it closes; eta is the
\* time from now to arrival_time.
tm_reserve_lane(lr, robot_id, from_vertex, to_vertex, eta) ==
  LET lane == <<from_vertex, to_vertex>>
  IN  IF lane \notin DOMAIN lr THEN [ok |-> FALSE, lane_reservations |-> lr]
      ELSE IF lr[lane].robot # None /\ lr[lane].robot # robot_id
              /\ lr[lane].left > 0
           THEN [ok |-> FALSE, lane_reservations |-> lr]
           ELSE [ok |-> TRUE,
                 lane_reservations |->
                     [lr EXCEPT ![lane] = [robot |-> robot_id,
                                           left |-> eta + SAFETY_GAP]]]

\* The coordinator's bookkeeping for a frame of delta_time: windows run down
\* and a closed window is dropped.
tm_update(lr, delta_time) ==
  [lane \in DOMAIN lr |->
      IF lr[lane].left > delta_time
      THEN [lr[lane] EXCEPT !.left = lr[lane].left - delta_time]
      ELSE NoReservation]

\* ---- Robot.update ----
\* update with the arrival test off by one ("> len(path) - 1"): at the last
\* vertex of the path it asks for a lane to path[current_path_index + 1].
update_arrival_off_by_one(g, rb, lr, robot_id, delta_time) ==
  LET same == [robot |-> rb, lane_reservations |-> lr, event |-> "none",
               raised |-> FALSE]
      dx == rb.target_position - rb.position
      distance == Abs(dx)
      idx == rb.current_path_index + 1
      snapped == [rb EXCEPT !.current_path_index = idx,
                            !.position = rb.target_position]
  IN  IF ~(rb.state = MOVING /\ rb.path # <<>>) THEN same
      ELSE IF distance < move_speed
      THEN IF idx >= Len(rb.path) - 1
           THEN [same EXCEPT
                   !.robot = IF idx >= Len(rb.path) THEN snapped
                             ELSE [snapped EXCEPT
                                     !.current_vertex = rb.path[idx + 1]],
                   !.raised = TRUE]
           ELSE LET at == [snapped EXCEPT !.current_vertex = rb.path[idx + 1]]
                    next_vertex == rb.path[idx + 2]
                    eta == (distance * TimeScale) \div move_speed
                    res == tm_reserve_lane(lr, robot_id, at.current_vertex,
                                           next_vertex, eta)
                IN  IF res.ok
                    THEN [robot |-> [at EXCEPT !.target_position =
                              get_scaled_position(g, next_vertex)],
                          lane_reservations |-> res.lane_reservations,
                          event |-> "moving_to",
                          raised |-> FALSE]
                    ELSE [same EXCEPT
                            !.robot = [at EXCEPT !.state = WAITING],
                            !.event = "waiting_for_clearance"]
      ELSE LET step == (move_speed * delta_time) \div TimeScale
               dir == IF dx < 0 THEN -1 ELSE 1
           IN  [same EXCEPT !.robot =
                   [rb EXCEPT !.position = rb.position + dir * step]]

\* update with the arrival test one vertex early (">= len(path) - 2"): the
\* robot reports its destination reached at the vertex before the last.
update_completes_early(g, rb, lr, robot_id, delta_time) ==
  LET same == [robot |-> rb, lane_reservations |-> lr, event |-> "none",
               raised |-> FALSE]
      dx == rb.target_position - rb.position
      distance == Abs(dx)
      idx == rb.current_path_index + 1
      snapped == [rb EXCEPT !.current_path_index = idx,
                            !.position = rb.target_position]
  IN  IF ~(rb.state = MOVING /\ rb.path # <<>>) THEN same
      ELSE IF distance < move_speed
      THEN IF idx >= Len(rb.path)
           THEN [same EXCEPT !.robot = snapped, !.raised = TRUE]
           ELSE LET at == [snapped EXCEPT !.current_vertex = rb.path[idx + 1]]
                IN  IF idx >= Len(rb.path) - 2
                    THEN [same EXCEPT
                            !.robot = [at EXCEPT !.state = COMPLETED],
                            !.event = "reached_destination"]
                    ELSE LET next_vertex == rb.path[idx + 2]
                             eta == (distance * TimeScale) \div move_speed
                             res == tm_reserve_lane(lr, robot_id,
                                        at.current_vertex, next_vertex, eta)
                         IN  IF res.ok
                             THEN [robot |-> [at EXCEPT !.target_position =
                                       get_scaled_position(g, next_vertex)],
                                   lane_reservations |-> res.lane_reservations,
                                   event |-> "moving_to",
                                   raised |-> FALSE]
                             ELSE [same EXCEPT
                                     !.robot = [at EXCEPT !.state = WAITING],
                                     !.event = "waiting_for_clearance"]
      ELSE LET step == (move_speed * delta_time) \div TimeScale
               dir == IF dx < 0 THEN -1 ELSE 1
           IN  [same EXCEPT !.robot =
                   [rb EXCEPT !.position = rb.position + dir * step]]

\* update that asks again for the next lane while the robot is WAITING and
\* sets it MOVING on a grant.
update_rechecking(g, rb, lr, robot_id, delta_time) ==
  LET same == [robot |-> rb, lane_reservations |-> lr, event |-> "none",
               raised |-> FALSE]
      dx == rb.target_position - rb.position
      distance == Abs(dx)
      idx == rb.current_path_index + 1
      snapped == [rb EXCEPT !.current_path_index = idx,
                            !.position = rb.target_position]
  IN  IF rb.state = WAITING
      THEN LET next_vertex == rb.path[rb.current_path_index + 2]
               res == tm_reserve_lane(lr, robot_id, rb.current_vertex,
                                      next_vertex, 0)
           IN  IF res.ok
               THEN [robot |-> [rb EXCEPT !.state = MOVING,
                                          !.target_position =
                                   get_scaled_position(g, next_vertex)],
                     lane_reservations |-> res.lane_reservations,
                     event |-> "moving_to",
                     raised |-> FALSE]
               ELSE same
      ELSE IF ~(rb.state = MOVING /\ rb.path # <<>>) THEN same
      ELSE IF distance < move_speed
      THEN IF idx >= Len(rb.path)
           THEN [same EXCEPT !.robot = snapped, !.raised = TRUE]
           ELSE LET at == [snapped EXCEPT !.current_vertex = rb.path[idx + 1]]
                IN  IF idx >= Len(rb.path) - 1
                    THEN [same EXCEPT
                            !.robot = [at EXCEPT !.state = COMPLETED],
                            !.event = "reached_destination"]
                    ELSE LET next_vertex == rb.path[idx + 2]
                             eta == (distance * TimeScale) \div move_speed
                             res == tm_reserve_lane(lr, robot_id,
                                        at.current_vertex, next_vertex, eta)
                         IN  IF res.ok
                             THEN [robot |-> [at EXCEPT !.target_position =
                                       get_scaled_position(g, next_vertex)],
                                   lane_reservations |-> res.lane_reservations,
                                   event |-> "moving_to",
                                   raised |-> FALSE]
                             ELSE [same EXCEPT
                                     !.robot = [at EXCEPT !.state = WAITING],
                                     !.event = "waiting_for_clearance"]
      ELSE LET step == (move_speed * delta_time) \div TimeScale
               dir == IF dx < 0 THEN -1 ELSE 1
           IN  [same EXCEPT !.robot =
                   [rb EXCEPT !.position = rb.position + dir * step]]

\* Returns the robot, the coordinator's table, the reported event and whether
\* the call raised (IndexError at path[current_path_index], after the cursor
\* and the position were already advanced).
update(g, rb, lr, robot_id, delta_time) ==
  LET same == [robot |-> rb, lane_reservations |-> lr, event |-> "none",
               raised |-> FALSE]
      dx == rb.target_position - rb.position
      distance == Abs(dx)
      idx == rb.current_path_index + 1
      snapped == [rb EXCEPT !.current_path_index = idx,
                            !.position = rb.target_position]
  IN  IF ~(rb.state = MOVING /\ rb.path # <<>>) THEN same
      ELSE IF distance < move_speed
      THEN IF idx >= Len(rb.path)
           THEN [same EXCEPT !.robot = snapped, !.raised = TRUE]
           ELSE LET at == [snapped EXCEPT !.current_vertex = rb.path[idx + 1]]
                IN  IF idx >= Len(rb.path) - 1
                    THEN [same EXCEPT
                            !.robot = [at EXCEPT !.state = COMPLETED],
                            !.event = "reached_destination"]
                    ELSE LET next_vertex == rb.path[idx + 2]
                             eta == (distance * TimeScale) \div move_speed
                             res == tm_reserve_lane(lr, robot_id,
                                        at.current_vertex, next_vertex, eta)
                         IN  IF res.ok
                             THEN [robot |-> [at EXCEPT !.target_position =
                                       get_scaled_position(g, next_vertex)],
                                   lane_reservations |-> res.lane_reservations,
                                   event |-> "moving_to",
                                   raised |-> FALSE]
                             ELSE [same EXCEPT
                                     !.robot = [at EXCEPT !.state = WAITING],
                                     !.event = "waiting_for_clearance"]
      ELSE LET step == (move_speed * delta_time) \div TimeScale
               dir == IF dx < 0 THEN -1 ELSE 1
           IN  [same EXCEPT !.robot =
                   [rb EXCEPT !.position = rb.position + dir * step]]

\* ---- FleetManager.update: every robot once, in the order of the robots ----
\* ---- dict (ascending id); an exception ends the loop. order lists the   ----
\* ---- robots whose update was called, in the order of the calls          ----
RECURSIVE UpdateFrom(_, _, _, _, _)
\* FleetManager.update leaving its loop when a robot was denied its lane.
UpdateFrom_denial_ends(g, rbs, lr, i, delta_time) ==
  IF i \notin DOMAIN rbs
  THEN [robots |-> rbs, lane_reservations |-> lr, raised |-> FALSE,
        order |-> <<>>]
  ELSE LET u == update(g, rbs[i], lr, i, delta_time)
           rbs2 == [rbs EXCEPT ![i] = u.robot]
       IN  IF u.raised
           THEN [robots |-> rbs2, lane_reservations |-> u.lane_reservations,
                 raised |-> TRUE, order |-> <<i>>]
           ELSE IF u.event = "waiting_for_clearance"
           THEN [robots |-> rbs2, lane_reservations |-> u.lane_reservations,
                 raised |-> FALSE, order |-> <<i>>]
           ELSE LET rest == UpdateFrom(g, rbs2, u.lane_reservations, i + 1,
                                       delta_time)
                IN  [rest EXCEPT !.order = <<i>> \o rest.order]

UpdateFrom(g, rbs, lr, i, delta_time) ==
  IF i \notin DOMAIN rbs
  THEN [robots |-> rbs, lane_reservations |-> lr, raised |-> FALSE,
        order |-> <<>>]
  ELSE LET u == update(g, rbs[i], lr, i, delta_time)
           rbs2 == [rbs EXCEPT ![i] = u.robot]
       IN  IF u.raised
           THEN [robots |-> rbs2, lane_reservations |-> u.lane_reservations,
                 raised |-> TRUE, order |-> <<i>>]
           ELSE LET rest == UpdateFrom(g, rbs2, u.lane_reservations, i + 1,
                                       delta_time)
                IN  [rest EXCEPT !.order = <<i>> \o rest.order]

fleet_update(g, rbs, lr, delta_time) == UpdateFrom(g, rbs, lr, 0, delta_time)

\* ---- state machine ----

Ret(op, robot_id, a, b, result, value) ==
  [op |-> op, robot |-> robot_id, a |-> a, b |-> b, result |-> result,
   value |-> value, path |-> <<>>]

\* No call result is pending.
NoRet == Ret("none", None, None, None, "none", None)

\* The state after construction on the loaded graph g.
InitOn(g) ==
  /\ graph = g
  /\ vertex_occ = [v \in VertexIds(graph) |-> None]
  /\ lane_occ = [i \in LaneIdx(graph) |-> None]
  /\ reserved_paths = [r \in RobotIds |-> <<>>]
  /\ destination_reservations = [v \in VertexIds(graph) |-> None]
  /\ lane_reservations = [lane \in LanePairs(graph) |-> NoReservation]
  /\ robots = <<>>
  /\ next_robot_id = 0
  /\ ret = NoRet
  /\ exc = "none"
  /\ trail = [r \in RobotIds |-> <<>>]
  /\ waited = [r \in RobotIds |-> 0]
  /\ lane_occupancy = [i \in LaneIdx(graph) |-> None]
  /\ ticked = <<>>
  /\ vertex_occupancy = [v \in VertexIds(graph) |-> <<>>]
  /\ definition = DefinitionOf(g)

Init == \E g \in Graphs : InitOn(g)

\* spawn_robot without the test of the vertex's occupancy.
Spawn_unchecked(vertex_id) ==
  /\ exc = "none" /\ ret = NoRet
  /\ IF vertex_id >= graph.nv
     THEN /\ exc' = "IndexError"
          /\ ret' = Ret("spawn", None, vertex_id, None, "raise", None)
          /\ UNCHANGED <<vertex_occ, robots, next_robot_id, trail>>
     ELSE IF FALSE
     THEN /\ ret' = Ret("spawn", None, vertex_id, None, "false", None)
          /\ UNCHANGED <<vertex_occ, robots, next_robot_id, trail, exc>>
     ELSE /\ next_robot_id \in RobotIds
          /\ robots' = [i \in DOMAIN robots \cup {next_robot_id} |->
                           IF i = next_robot_id
                           THEN NewRobot(graph, vertex_id) ELSE robots[i]]
          /\ vertex_occ' = reserve_vertex(graph, vertex_occ, vertex_id,
                                          next_robot_id).vertex_occ
          /\ next_robot_id' = next_robot_id + 1
          /\ trail' = [trail EXCEPT ![next_robot_id] = <<vertex_id>>]
          /\ ret' = Ret("spawn", next_robot_id, vertex_id, None, "true",
                        next_robot_id)
          /\ UNCHANGED exc
  /\ UNCHANGED <<graph, lane_occ, reserved_paths, destination_reservations,
                 lane_reservations, waited, lane_occupancy, ticked,
                 vertex_occupancy,
                 definition>>

\* spawn_robot that does not advance next_robot_id.
Spawn_reuse_id(vertex_id) ==
  /\ exc = "none" /\ ret = NoRet
  /\ IF vertex_id >= graph.nv
     THEN /\ exc' = "IndexError"
          /\ ret' = Ret("spawn", None, vertex_id, None, "raise", None)
          /\ UNCHANGED <<vertex_occ, robots, next_robot_id, trail>>
     ELSE IF vertex_occ[vertex_id] # None
     THEN /\ ret' = Ret("spawn", None, vertex_id, None, "false", None)
          /\ UNCHANGED <<vertex_occ, robots, next_robot_id, trail, exc>>
     ELSE /\ next_robot_id \in RobotIds
          /\ robots' = [i \in DOMAIN robots \cup {next_robot_id} |->
                           IF i = next_robot_id
                           THEN NewRobot(graph, vertex_id) ELSE robots[i]]
          /\ vertex_occ' = reserve_vertex(graph, vertex_occ, vertex_id,
                                          next_robot_id).vertex_occ
          /\ next_robot_id' = next_robot_id
          /\ trail' = [trail EXCEPT ![next_robot_id] = <<vertex_id>>]
          /\ ret' = Ret("spawn", next_robot_id, vertex_id, None, "true",
                        next_robot_id)
          /\ UNCHANGED exc
  /\ UNCHANGED <<graph, lane_occ, reserved_paths, destination_reservations,
                 lane_reservations, waited, lane_occupancy, ticked,
                 vertex_occupancy,
                 definition>>

\* FleetManager.spawn_robot(vertex_id). "vertices[vertex_id]" raises IndexError
\* for an index past the end of the vertices list.
Spawn(vertex_id) ==
  /\ exc = "none" /\ ret = NoRet
  /\ IF vertex_id >= graph.nv
     THEN /\ exc' = "IndexError"
          /\ ret' = Ret("spawn", None, vertex_id, None, "raise", None)
          /\ UNCHANGED <<vertex_occ, robots, next_robot_id, trail>>
     ELSE IF vertex_occ[vertex_id] # None
     THEN /\ ret' = Ret("spawn", None, vertex_id, None, "false", None)
          /\ UNCHANGED <<vertex_occ, robots, next_robot_id, trail, exc>>
     ELSE /\ next_robot_id \in RobotIds
          /\ robots' = [i \in DOMAIN robots \cup {next_robot_id} |->
                           IF i = next_robot_id
                           THEN NewRobot(graph, vertex_id) ELSE robots[i]]
          /\ vertex_occ' = reserve_vertex(graph, vertex_occ, vertex_id,
                                          next_robot_id).vertex_occ
          /\ next_robot_id' = next_robot_id + 1
          /\ trail' = [trail EXCEPT ![next_robot_id] = <<vertex_id>>]
          /\ ret' = Ret("spawn", next_robot_id, vertex_id, None, "true",
                        next_robot_id)
          /\ UNCHANGED exc
  /\ UNCHANGED <<graph, lane_occ, reserved_paths, destination_reservations,
                 lane_reservations, waited, lane_occupancy, ticked,
                 vertex_occupancy,
                 definition>>

\* FleetManager.assign_navigation_task(robot_id, destination_vertex).
AssignTask(robot_id, destination_vertex) ==
  /\ exc = "none" /\ ret = NoRet
  /\ IF robot_id \notin DOMAIN robots
     THEN /\ ret' = Ret("assign", robot_id, destination_vertex, None, "false",
                        None)
          /\ UNCHANGED <<robots, reserved_paths, destination_reservations,
                         vertex_occ, exc, trail>>
     ELSE LET res == assign_task(graph, robots[robot_id], reserved_paths,
                                 destination_reservations, vertex_occ,
                                 robot_id, destination_vertex)
          IN  /\ robots' = [robots EXCEPT ![robot_id] = res.robot]
              /\ reserved_paths' = res.reserved_paths
              /\ destination_reservations' = res.destination_reservations
              /\ vertex_occ' = res.vertex_occ
              /\ exc' = IF res.result = "raise" THEN "IndexError" ELSE exc
              /\ trail' = IF res.result = "false" THEN trail
                          ELSE [trail EXCEPT ![robot_id] =
                                   <<robots[robot_id].current_vertex>>]
              /\ ret' = Ret("assign", robot_id, destination_vertex, None,
                            res.result, None)
  /\ UNCHANGED <<graph, lane_occ, lane_reservations, next_robot_id, waited,
                 lane_occupancy, ticked,
                 vertex_occupancy,
                 definition>>

\* The caller takes the result of its call (FleetGUI.handle_events shows a
\* message for it) before the run loop goes on.
HandleResult ==
  /\ exc = "none" /\ ret # NoRet
  /\ ret' = NoRet
  /\ UNCHANGED <<graph, vertex_occ, lane_occ, reserved_paths,
                 destination_reservations, lane_reservations, robots,
                 next_robot_id, exc, trail, waited,
                 lane_occupancy, ticked,
                 vertex_occupancy,
                 definition>>

\* One frame of the run loop: FleetManager.update(delta_time) preceded by
\* the passing of delta_time on the coordinator's windows. update returns
\* nothing, so no result is pending after it.
Tick(delta_time) ==
  /\ exc = "none" /\ ret = NoRet
  /\ LET res == fleet_update(graph, robots,
                             tm_update(lane_reservations, delta_time),
                             delta_time)
     IN  /\ robots' = res.robots
         /\ lane_reservations' = res.lane_reservations
         /\ exc' = IF res.raised THEN "IndexError" ELSE exc
         /\ trail' = [r \in RobotIds |->
                        IF r \in DOMAIN robots
                           /\ res.robots[r].current_vertex
                                # robots[r].current_vertex
                        THEN Append(trail[r], res.robots[r].current_vertex)
                        ELSE trail[r]]
         /\ waited' = [r \in RobotIds |->
                        IF r \in DOMAIN robots /\ res.robots[r].state = WAITING
                        THEN IF robots[r].state = WAITING
                             THEN Min2(waited[r] + 1, WAIT_TIMEOUT + 2)
                             ELSE 0
                        ELSE 0]
         /\ ticked' = res.order
         /\ ret' = NoRet
  /\ UNCHANGED <<graph, vertex_occ, lane_occ, reserved_paths,
                 destination_reservations, next_robot_id, lane_occupancy,
                 vertex_occupancy,
                 definition>>

\* ---- direct calls of the NavGraph reservation interface ----

\* NavGraph.reserve_vertex(vertex_id, robot_id) called on the graph.
ReserveVertex(vertex_id, robot_id) ==
  /\ exc = "none" /\ ret = NoRet
  /\ LET res == reserve_vertex(graph, vertex_occ, vertex_id, robot_id)
     IN  /\ vertex_occ' = res.vertex_occ
         /\ ret' = Ret("reserve_vertex", robot_id, vertex_id, None,
                       IF res.ok THEN "true" ELSE "false", None)
  /\ UNCHANGED <<graph, lane_occ, reserved_paths, destination_reservations,
                 lane_reservations, robots, next_robot_id, exc, trail, waited,
                 lane_occupancy, ticked,
                 vertex_occupancy,
                 definition>>

\* NavGraph.release_vertex(vertex_id, robot_id) called on the graph.
ReleaseVertex(vertex_id, robot_id) ==
  /\ exc = "none" /\ ret = NoRet
  /\ LET res == release_vertex(graph, vertex_occ, vertex_id, robot_id)
     IN  /\ vertex_occ' = res.vertex_occ
         /\ ret' = Ret("release_vertex", robot_id, vertex_id, None,
                       IF res.ok THEN "true" ELSE "false", None)
  /\ UNCHANGED <<graph, lane_occ, reserved_paths, destination_reservations,
                 lane_reservations, robots, next_robot_id, exc, trail, waited,
                 lane_occupancy, ticked,
                 vertex_occupancy,
                 definition>>

\* NavGraph.reserve_lane(from_vertex, to_vertex, robot_id) called on the graph.
ReserveLane(from_vertex, to_vertex, robot_id) ==
  /\ exc = "none" /\ ret = NoRet
  /\ LET res == reserve_lane(graph, lane_occ, from_vertex, to_vertex, robot_id)
     IN  /\ lane_occ' = res.lane_occ
         /\ ret' = Ret("reserve_lane", robot_id, from_vertex, to_vertex,
                       IF res.ok THEN "true" ELSE "false", None)
  /\ UNCHANGED <<graph, vertex_occ, reserved_paths, destination_reservations,
                 lane_reservations, robots, next_robot_id, exc, trail, waited,
                 lane_occupancy, ticked,
                 vertex_occupancy,
                 definition>>

\* NavGraph.release_lane(from_vertex, to_vertex, robot_id) called on the graph.
ReleaseLane(from_vertex, to_vertex, robot_id) ==
  /\ exc = "none" /\ ret = NoRet
  /\ LET res == release_lane(graph, lane_occ, from_vertex, to_vertex, robot_id)
     IN  /\ lane_occ' = res.lane_occ
         /\ ret' = Ret("release_lane", robot_id, from_vertex, to_vertex,
                       IF res.ok THEN "true" ELSE "false", None)
  /\ UNCHANGED <<graph, vertex_occ, reserved_paths, destination_reservations,
                 lane_reservations, robots, next_robot_id, exc, trail, waited,
                 lane_occupancy, ticked,
                 vertex_occupancy,
                 definition>>

\* ---- direct calls of the TrafficManager lane occupancy interface ----

\* TrafficManager.occupy_lane(lane_idx, robot_id).
OccupyLane(lane_idx, robot_id) ==
  /\ exc = "none" /\ ret = NoRet
  /\ LET res == occupy_lane(lane_occupancy, lane_idx, robot_id)
     IN  /\ lane_occupancy' = res.lane_occupancy
         /\ ret' = Ret("occupy_lane", robot_id, lane_idx, None,
                       IF res.ok THEN "true" ELSE "false", None)
  /\ UNCHANGED <<graph, vertex_occ, lane_occ, reserved_paths,
                 destination_reservations, lane_reservations, robots,
                 next_robot_id, exc, trail, waited, ticked,
                 vertex_occupancy,
                 definition>>

\* TrafficManager.release_lane(lane_idx, robot_id).
TMReleaseLane(lane_idx, robot_id) ==
  /\ exc = "none" /\ ret = NoRet
  /\ LET res == tm_release_lane(lane_occupancy, lane_idx, robot_id)
     IN  /\ lane_occupancy' = res.lane_occupancy
         /\ ret' = Ret("tm_release_lane", robot_id, lane_idx, None,
                       IF res.ok THEN "true" ELSE "false", None)
  /\ UNCHANGED <<graph, vertex_occ, lane_occ, reserved_paths,
                 destination_reservations, lane_reservations, robots,
                 next_robot_id, exc, trail, waited, ticked,
                 vertex_occupancy,
                 definition>>

\* get_shortest_path that also records the destination for the requester.
ShortestPath_claiming(start_vertex, end_vertex, robot_id) ==
  /\ exc = "none" /\ ret = NoRet
  /\ LET path == get_shortest_path(graph, destination_reservations,
                                   start_vertex, end_vertex, robot_id)
     IN  /\ ret' = [Ret("shortest_path", robot_id, start_vertex, end_vertex,
                        IF path = <<>> THEN "no_path" ELSE "path", None)
                      EXCEPT !.path = path]
         /\ destination_reservations' =
               IF path = <<>> THEN destination_reservations
               ELSE [destination_reservations EXCEPT ![end_vertex] = robot_id]
  /\ UNCHANGED <<graph, vertex_occ, lane_occ, reserved_paths,
                 lane_reservations, robots, next_robot_id, exc, trail, waited,
                 lane_occupancy, ticked,
                 vertex_occupancy,
                 definition>>

\* NavGraph.get_shortest_path(start_vertex, end_vertex, robot_id) called on
\* the graph: a query, it assigns nothing.
ShortestPath(start_vertex, end_vertex, robot_id) ==
  /\ exc = "none" /\ ret = NoRet
  /\ LET path == get_shortest_path(graph, destination_reservations,
                                   start_vertex, end_vertex, robot_id)
     IN  ret' = [Ret("shortest_path", robot_id, start_vertex, end_vertex,
                     IF path = <<>> THEN "no_path" ELSE "path", None)
                   EXCEPT !.path = path]
  /\ UNCHANGED <<graph, vertex_occ, lane_occ, reserved_paths,
                 destination_reservations, lane_reservations, robots,
                 next_robot_id, exc, trail, waited, lane_occupancy, ticked,
                 vertex_occupancy,
                 definition>>

\* NavGraph.is_vertex_available(vertex_id, robot_id) called on the graph: a
\* query, it assigns nothing.
VertexAvailable(vertex_id, robot_id) ==
  /\ exc = "none" /\ ret = NoRet
  /\ ret' = Ret("vertex_available", robot_id, vertex_id, None,
                IF is_vertex_available(graph, destination_reservations,
                                       vertex_occ, reserved_paths,
                                       vertex_id, robot_id)
                THEN "true" ELSE "false", None)
  /\ UNCHANGED <<graph, vertex_occ, lane_occ, reserved_paths,
                 destination_reservations, lane_reservations, robots,
                 next_robot_id, exc, trail, waited, lane_occupancy, ticked,
                 vertex_occupancy,
                 definition>>

\* TrafficManager.can_use_lane(robot, lane_idx): a query.
CanUseLane(robot_id, lane_idx) ==
  /\ exc = "none" /\ ret = NoRet
  /\ ret' = Ret("can_use_lane", robot_id, lane_idx, None,
                IF can_use_lane(lane_occupancy, robot_id, lane_idx)
                THEN "true" ELSE "false", None)
  /\ UNCHANGED <<graph, vertex_occ, lane_occ, reserved_paths,
                 destination_reservations, lane_reservations, robots,
                 next_robot_id, exc, trail, waited, lane_occupancy, ticked,
                 vertex_occupancy,
                 definition>>

\* TrafficManager.occupy_vertex(vertex_idx, robot_id).
OccupyVertex(vertex_idx, robot_id) ==
  /\ exc = "none" /\ ret = NoRet
  /\ vertex_occupancy' = occupy_vertex(vertex_occupancy, vertex_idx, robot_id)
  /\ ret' = Ret("occupy_vertex", robot_id, vertex_idx, None, "done", None)
  /\ UNCHANGED <<graph, vertex_occ, lane_occ, reserved_paths,
                 destination_reservations, lane_reservations, robots,
                 next_robot_id, exc, trail, waited, lane_occupancy, ticked,
                 definition>>

\* TrafficManager.release_vertex(vertex_idx, robot_id).
TMReleaseVertex(vertex_idx, robot_id) ==
  /\ exc = "none" /\ ret = NoRet
  /\ vertex_occupancy' =
        tm_release_vertex(vertex_occupancy, vertex_idx, robot_id)
  /\ ret' = Ret("tm_release_vertex", robot_id, vertex_idx, None, "done", None)
  /\ UNCHANGED <<graph, vertex_occ, lane_occ, reserved_paths,
                 destination_reservations, lane_reservations, robots,
                 next_robot_id, exc, trail, waited, lane_occupancy, ticked,
                 definition>>

\* TrafficManager.check_conflicts(robots) called with the robots of the
\* fleet; the AttributeError is not caught by it.
CheckConflicts ==
  /\ exc = "none" /\ ret = NoRet
  /\ LET res == check_conflicts(lane_occupancy, robots)
     IN  /\ exc' = IF res.raised THEN "AttributeError" ELSE exc
         /\ ret' = Ret("check_conflicts", None, None, None,
                       IF res.raised THEN "raise" ELSE "done", None)
  /\ UNCHANGED <<graph, vertex_occ, lane_occ, reserved_paths,
                 destination_reservations, lane_reservations, robots,
                 next_robot_id, trail, waited, lane_occupancy, ticked,
                 vertex_occupancy,
                 definition>>

\* ---- direct calls of the TrafficManager time-window interface ----

\* TrafficManager.reserve_lane(robot_id, from, to, arrival_time), eta being
\* the time from now to arrival_time.
TMReserveLane(robot_id, from_vertex, to_vertex, eta) ==
  /\ exc = "none" /\ ret = NoRet
  /\ LET res == tm_reserve_lane(lane_reservations, robot_id,
                                from_vertex, to_vertex, eta)
     IN  /\ lane_reservations' = res.lane_reservations
         /\ ret' = Ret("tm_reserve_lane", robot_id, from_vertex, to_vertex,
                       IF res.ok THEN "true" ELSE "false", eta)
  /\ UNCHANGED <<graph, vertex_occ, lane_occ, reserved_paths,
                 destination_reservations, robots, next_robot_id, exc, trail,
                 waited, lane_occupancy, ticked, vertex_occupancy,
                 definition>>

\* ---- direct calls of the Robot interface ----

\* Robot.pause_movement() on a robot of the fleet; it returns nothing.
Pause(robot_id) ==
  /\ exc = "none" /\ ret = NoRet
  /\ robot_id \in DOMAIN robots
  /\ robots' = pause_movement(robots, robot_id)
  /\ ret' = Ret("pause", robot_id, None, None, "done", None)
  /\ UNCHANGED <<graph, vertex_occ, lane_occ, reserved_paths,
                 destination_reservations, lane_reservations, next_robot_id,
                 exc, trail, waited, lane_occupancy, ticked, vertex_occupancy,
                 definition>>

\* Robot.resume_movement() on a robot of the fleet; it returns nothing.
Resume(robot_id) ==
  /\ exc = "none" /\ ret = NoRet
  /\ robot_id \in DOMAIN robots
  /\ robots' = resume_movement(robots, robot_id)
  /\ ret' = Ret("resume", robot_id, None, None, "done", None)
  /\ UNCHANGED <<graph, vertex_occ, lane_occ, reserved_paths,
                 destination_reservations, lane_reservations, next_robot_id,
                 exc, trail, waited, lane_occupancy, ticked, vertex_occupancy,
                 definition>>

\* Robot.update(delta_time) on one robot of the fleet; the status it returns
\* is kept as the call's result and an IndexError is not caught by it.
UpdateOne(robot_id, delta_time) ==
  /\ exc = "none" /\ ret = NoRet
  /\ robot_id \in DOMAIN robots
  /\ LET res == update(graph, robots[robot_id], lane_reservations,
                       robot_id, delta_time)
     IN  /\ robots' = [robots EXCEPT ![robot_id] = res.robot]
         /\ lane_reservations' = res.lane_reservations
         /\ exc' = IF res.raised THEN "IndexError" ELSE exc
         /\ trail' = [trail EXCEPT ![robot_id] =
                        IF res.robot.current_vertex
                             # robots[robot_id].current_vertex
                        THEN Append(@, res.robot.current_vertex) ELSE @]
         /\ ret' = Ret("update", robot_id, None, None,
                       IF res.raised THEN "raise" ELSE res.event, delta_time)
  /\ UNCHANGED <<graph, vertex_occ, lane_occ, reserved_paths,
                 destination_reservations, next_robot_id, waited,
                 lane_occupancy, ticked, vertex_occupancy,
                 definition>>

\* ---- construction ----

\* NavGraph(json_file_path) and the objects built on it in run: the
\* definition is loaded and the tables start empty; a load error ends the
\* run before any graph exists.
Load ==
  /\ exc = "none" /\ ret = NoRet
  /\ graph = Unloaded
  /\ LET res == load_from_json(definition)
         g == res.graph
     IN  /\ graph' = g
         /\ vertex_occ' = [v \in VertexIds(g) |-> None]
         /\ lane_occ' = [i \in LaneIdx(g) |-> None]
         /\ destination_reservations' = [v \in VertexIds(g) |-> None]
         /\ lane_reservations' = [lane \in LanePairs(g) |-> NoReservation]
         /\ lane_occupancy' = [i \in LaneIdx(g) |-> None]
         /\ vertex_occupancy' = [v \in VertexIds(g) |-> <<>>]
         /\ exc' = IF res.ok THEN exc ELSE "LoadError"
         /\ ret' = Ret("load", None, None, None,
                       IF res.ok THEN "true" ELSE "raise", None)
  /\ UNCHANGED <<reserved_paths, robots, next_robot_id, trail, waited, ticked,
                 definition>>

\* ---- specifications ----

\* spawn_robot in a fleet of at most MaxRobots robots.
SpawnFleet(vertex_id) ==
  /\ vertex_occ[vertex_id] = None => next_robot_id < MaxRobots
  /\ Spawn(vertex_id)

\* The fleet as the run loop drives it: spawn, assign, tick.
Next ==
  \/ \E v \in VertexIds(graph) : SpawnFleet(v)
  \/ \E r \in RobotIds, d \in VertexIds(graph) : AssignTask(r, d)
  \/ \E dt \in DeltaTimes : Tick(dt)
  \/ HandleResult

Spec == Init /\ [][Next]_vars

\* The fleet on the one-way line together with direct reserve / release calls
\* on the graph by any robot id.
InitRes == Init /\ graph = Line

NextRes ==
  \/ \E v \in VertexIds(graph) : SpawnFleet(v)
  \/ \E r \in RobotIds, d \in VertexIds(graph) : AssignTask(r, d)
  \/ \E dt \in DeltaTimes : Tick(dt)
  \/ \E v \in VertexIds(graph), r \in RobotIds : ReserveVertex(v, r)
  \/ \E v \in VertexIds(graph), r \in RobotIds : ReleaseVertex(v, r)
  \/ \E lane \in LanePairs(graph), r \in RobotIds :
        ReserveLane(lane[1], lane[2], r)
  \/ \E lane \in LanePairs(graph), r \in RobotIds :
        ReleaseLane(lane[1], lane[2], r)
  \/ HandleResult

SpecRes == InitRes /\ [][NextRes]_vars

\* A single robot (no contention).  The run loop calls update() once per
\* iteration, after the events of that iteration have been handled, so a
\* frame is taken however often events keep arriving: strong fairness.
SpawnFirst(vertex_id) == next_robot_id = 0 /\ Spawn(vertex_id)
AssignFirst(destination_vertex) == AssignTask(0, destination_vertex)
Frame == \E dt \in DeltaTimes : Tick(dt)

NextSingle ==
  \/ \E v \in VertexIds(graph) : SpawnFirst(v)
  \/ \E d \in VertexIds(graph) : AssignFirst(d)
  \/ Frame
  \/ HandleResult

SpecSingle ==
  Init /\ [][NextSingle]_vars /\ SF_vars(Frame) /\ WF_vars(HandleResult)

\* A single robot on a machine where an iteration of the run loop may be held
\* up: the frame after it carries the whole elapsed time.
Stall == \E dt \in StallTimes : Tick(dt)

NextStall ==
  \/ \E v \in VertexIds(graph) : SpawnFirst(v)
  \/ \E d \in VertexIds(graph) : AssignFirst(d)
  \/ Frame
  \/ Stall
  \/ HandleResult

SpecStall == Init /\ [][NextStall]_vars

\* A fleet of at most two robots together with path queries between any two
\* vertices on behalf of any robot id.
SpawnPair(vertex_id) == next_robot_id < 2 /\ Spawn(vertex_id)

NextQuery ==
  \/ \E v \in VertexIds(graph) : SpawnPair(v)
  \/ \E r \in RobotIds, d \in VertexIds(graph) : AssignTask(r, d)
  \/ \E dt \in DeltaTimes : Tick(dt)
  \/ \E s \in VertexIds(graph), e \in VertexIds(graph), r \in RobotIds :
        ShortestPath(s, e, r)
  \/ HandleResult

SpecQuery == Init /\ [][NextQuery]_vars

\* The fleet called with any vertex index, in the graph or past its end.
NextRange ==
  \/ \E v \in VertexIds(graph) : SpawnFleet(v)
  \/ \E v \in OutOfRange(graph) : Spawn(v)
  \/ \E r \in RobotIds, d \in VertexIds(graph) : AssignTask(r, d)
  \/ \E r \in RobotIds, d \in OutOfRange(graph) : AssignTask(r, d)
  \/ \E dt \in DeltaTimes : Tick(dt)
  \/ HandleResult

SpecRange == Init /\ [][NextRange]_vars

\* A fleet of at most three robots on the yard graph.
SpawnTrio(vertex_id) == next_robot_id < 3 /\ Spawn(vertex_id)

NextYard ==
  \/ \E v \in VertexIds(graph) : SpawnTrio(v)
  \/ \E r \in RobotIds, d \in VertexIds(graph) : AssignTask(r, d)
  \/ \E dt \in DeltaTimes : Tick(dt)
  \/ HandleResult

SpecYard == InitOn(Yard) /\ [][NextYard]_vars

\* The lane occupancy interfaces of the graph and of the traffic manager on
\* the one-way line, called for any two vertices / any lane index by any
\* robot id.
NextLanes ==
  \/ \E f \in VertexIds(graph), t \in VertexIds(graph), r \in RobotIds :
        ReserveLane(f, t, r)
  \/ \E f \in VertexIds(graph), t \in VertexIds(graph), r \in RobotIds :
        ReleaseLane(f, t, r)
  \/ \E i \in LaneIdx(graph), r \in RobotIds : OccupyLane(i, r)
  \/ \E i \in LaneIdx(graph), r \in RobotIds : TMReleaseLane(i, r)
  \/ HandleResult

SpecLanes == InitOn(Line) /\ [][NextLanes]_vars

\* A fleet of at most two robots on the junction graph together with
\* availability queries on any vertex on behalf of any robot id.
NextAvail ==
  \/ \E v \in VertexIds(graph) : SpawnPair(v)
  \/ \E r \in RobotIds, d \in VertexIds(graph) : AssignTask(r, d)
  \/ \E dt \in DeltaTimes : Tick(dt)
  \/ \E v \in VertexIds(graph), r \in RobotIds : VertexAvailable(v, r)
  \/ HandleResult

SpecAvail == InitOn(Junction) /\ [][NextAvail]_vars

\* The traffic manager's occupancy interface on the single lane, called for
\* any lane / vertex index by any robot id, beside a fleet of at most two
\* robots and the conflict audit over that fleet.
NextTraffic ==
  \/ \E v \in VertexIds(graph) : SpawnPair(v)
  \/ \E i \in LaneIdx(graph), r \in RobotIds : OccupyLane(i, r)
  \/ \E i \in LaneIdx(graph), r \in RobotIds : TMReleaseLane(i, r)
  \/ \E i \in LaneIdx(graph), r \in RobotIds : CanUseLane(r, i)
  \/ \E v \in VertexIds(graph), r \in RobotIds : OccupyVertex(v, r)
  \/ \E v \in VertexIds(graph), r \in RobotIds : TMReleaseVertex(v, r)
  \/ CheckConflicts
  \/ HandleResult

SpecTraffic == InitOn(Segment) /\ [][NextTraffic]_vars

\* The time-window interface on the one-way line: reservation requests for
\* any lane by any robot id with an expected arrival within Etas, and frames
\* of the run loop that let the time pass.
Etas == {5, 10}

NextWindow ==
  \/ \E lane \in LanePairs(graph), r \in RobotIds, eta \in Etas :
        TMReserveLane(r, lane[1], lane[2], eta)
  \/ \E dt \in DeltaTimes : Tick(dt)
  \/ HandleResult

SpecWindow == InitOn(Line) /\ [][NextWindow]_vars

\* A fleet of at most two robots in the corridor whose robots are also paused,
\* resumed and updated one at a time.
NextPause ==
  \/ \E v \in VertexIds(graph) : SpawnPair(v)
  \/ \E r \in RobotIds, d \in VertexIds(graph) : AssignTask(r, d)
  \/ \E dt \in DeltaTimes : Tick(dt)
  \/ \E r \in RobotIds : Pause(r)
  \/ \E r \in RobotIds : Resume(r)
  \/ \E r \in RobotIds, dt \in DeltaTimes : UpdateOne(r, dt)
  \/ HandleResult

SpecPause == InitOn(Corridor) /\ [][NextPause]_vars

\* The program started on any definition of Definitions: the load, then
\* spawns of at most two robots on the loaded graph.
InitLoad ==
  /\ graph = Unloaded
  /\ vertex_occ = <<>> /\ lane_occ = <<>>
  /\ reserved_paths = [r \in RobotIds |-> <<>>]
  /\ destination_reservations = <<>>
  /\ lane_reservations = <<>>
  /\ robots = <<>>
  /\ next_robot_id = 0
  /\ ret = NoRet
  /\ exc = "none"
  /\ trail = [r \in RobotIds |-> <<>>]
  /\ waited = [r \in RobotIds |-> 0]
  /\ lane_occupancy = <<>>
  /\ ticked = <<>>
  /\ vertex_occupancy = <<>>
  /\ definition \in Definitions

NextLoad ==
  \/ Load
  \/ \E v \in VertexIds(graph) : SpawnPair(v)
  \/ HandleResult

SpecLoad == InitLoad /\ [][NextLoad]_vars

\* A fleet of at most two robots on the junction graph whose robots are also
\* paused and updated one at a time.
NextIdle ==
  \/ \E v \in VertexIds(graph) : SpawnPair(v)
  \/ \E r \in RobotIds, d \in VertexIds(graph) : AssignTask(r, d)
  \/ \E dt \in DeltaTimes : Tick(dt)
  \/ \E r \in RobotIds : Pause(r)
  \/ \E r \in RobotIds, dt \in DeltaTimes : UpdateOne(r, dt)
  \/ HandleResult

SpecIdle == InitOn(Junction) /\ [][NextIdle]_vars

TypeOK == next_robot_id \in 0 .. (MaxRobots + 1)

\* ---- properties ----

Spawned == DOMAIN robots

\* The lane a robot is travelling on (it is MOVING between two vertices of
\* its path).
InTransit(r) ==
  /\ robots[r].state = MOVING
  /\ robots[r].current_path_index + 2 <= Len(robots[r].path)
LaneOf(r) ==
  <<robots[r].path[robots[r].current_path_index + 1],
    robots[r].path[robots[r].current_path_index + 2]>>

\* C1: a reserve_vertex or reserve_lane on a resource held by a different
\* robot is denied and changes no occupancy, and no step of any operation
\* (spawn, assign, tick, reserve, release) hands a held vertex or lane to
\* another robot: a holder is only ever replaced after a release.
C1_ExclusiveOccupancy ==
  [][ /\ (ret'.op = "reserve_vertex"
            /\ vertex_occ[ret'.a] \notin {None, ret'.robot})
         => (ret'.result = "false" /\ vertex_occ' = vertex_occ)
      /\ (ret'.op = "reserve_lane"
            /\ lane_occ[FirstLane(graph, ret'.a, ret'.b)]
                   \notin {None, ret'.robot})
         => (ret'.result = "false" /\ lane_occ' = lane_occ)
      /\ \A v \in VertexIds(graph) :
            vertex_occ[v] # None => vertex_occ'[v] \in {vertex_occ[v], None}
      /\ \A i \in LaneIdx(graph) :
            lane_occ[i] # None => lane_occ'[i] \in {lane_occ[i], None}
    ]_vars

\* C1 witness: a reserve_lane was just denied on a lane another robot holds,
\* while a vertex is held by a spawned robot.
C1_Witness ==
  /\ ret.op = "reserve_lane" /\ ret.result = "false"
  /\ lane_occ[FirstLane(graph, ret.a, ret.b)] \notin {None, ret.robot}
  /\ \E v \in VertexIds(graph) : vertex_occ[v] \in Spawned

\* C2: no two robots have the same current vertex and no two robots are in
\* transit on the same lane.
C2_NoCollision ==
  \A a \in Spawned, b \in Spawned :
     a # b =>
       /\ robots[a].current_vertex # robots[b].current_vertex
       /\ ~(InTransit(a) /\ InTransit(b) /\ LaneOf(a) = LaneOf(b))

\* C3: an assignment by a robot to a vertex that is reserved as the
\* destination of another robot fails and leaves that reservation (and every
\* other one) as it was.
C3_DestinationUnique ==
  [][ (ret'.op = "assign" /\ ret'.robot \in Spawned
         /\ DestinationTaken(destination_reservations, ret'.a, ret'.robot))
      => /\ ret'.result = "false"
         /\ destination_reservations' = destination_reservations
    ]_vars

\* C3 witness: an idle robot was just refused a free (unoccupied) vertex that
\* another robot has reserved as its destination.
C3_Witness ==
  /\ ret.op = "assign" /\ ret.result = "false" /\ ret.robot \in Spawned
  /\ robots[ret.robot].state = IDLE
  /\ vertex_occ[ret.a] = None
  /\ destination_reservations[ret.a] \notin {None, ret.robot}

\* C4: an assignment that returns failure changes nothing: not the robot,
\* nor any other robot, nor vertex occupancy, reserved paths or destination
\* reservations.
C4_FailedAssignCommitsNothing ==
  [][ (ret'.op = "assign" /\ ret'.result = "false")
      => UNCHANGED <<robots, vertex_occ, lane_occ, reserved_paths,
                     destination_reservations, lane_reservations,
                     next_robot_id>>
    ]_vars

\* C4 witness: an idle robot standing on a vertex that another robot
\* occupies was just refused a task.
C4_Witness ==
  /\ ret.op = "assign" /\ ret.result = "false" /\ ret.robot \in Spawned
  /\ robots[ret.robot].state \in {IDLE, COMPLETED}
  /\ vertex_occ[robots[ret.robot].current_vertex] \notin {None, ret.robot}

Beyond(path) == {path[i] : i \in 2 .. Len(path)}

C6_AssignPostcondition ==
  [][ (ret'.op = "assign" /\ ret'.result = "true")
      => LET r == ret'.robot
             d == ret'.a
         IN  /\ robots'[r].state = MOVING
             /\ robots'[r].path =
                   find_path_astar(graph, robots[r].current_vertex, d)
             /\ robots'[r].current_path_index = 0
             /\ robots'[r].target_vertex = d
             /\ destination_reservations'[d] = r
             /\ vertex_occ'[robots'[r].path[1]] = r
    ]_vars

\* C7: an assignment for an unknown robot id, or for a robot that is MOVING
\* or WAITING, fails and changes no robot; a task is accepted only from IDLE
\* or COMPLETED.
C7_BusyOrUnknownRefused ==
  [][ ret'.op = "assign"
      => /\ (ret'.robot \notin Spawned
               \/ robots[ret'.robot].state \in {MOVING, WAITING})
            => (ret'.result = "false" /\ robots' = robots)
         /\ ret'.result = "true"
            => robots[ret'.robot].state \in {IDLE, COMPLETED}
    ]_vars

\* C7 witness: a WAITING robot was just refused a task.
C7_Witness ==
  /\ ret.op = "assign" /\ ret.result = "false" /\ ret.robot \in Spawned
  /\ robots[ret.robot].state = WAITING

CorridorScenario ==
  /\ graph = Corridor
  /\ Spawned = {0, 1}
  /\ vertex_occ[0] = 0 /\ vertex_occ[2] = 1
  /\ robots[0].target_vertex \in {None, 2}
  /\ robots[1].target_vertex \in {None, 0}

\* C9: in the corridor scenario the two robots are never both MOVING.
C9_CorridorHeadOn ==
  CorridorScenario
  => ~(robots[0].state = MOVING /\ robots[1].state = MOVING)

\* C9 witness: in the corridor scenario robot 1 was just denied vertex 0
\* and neither robot is moving.
C9_Witness ==
  /\ CorridorScenario
  /\ ret.op = "assign" /\ ret.robot = 1 /\ ret.a = 0 /\ ret.result = "false"
  /\ robots[0].state # MOVING /\ robots[1].state # MOVING

\* C10: no robot stays WAITING for more than WAIT_TIMEOUT + 1 ticks.
C10_StarvationBound ==
  \A r \in RobotIds : waited[r] <= WAIT_TIMEOUT + 1

\* Distance left to the position the robot is heading for.
Remaining(rb) == Abs(rb.target_position - rb.position)

\* C11: while a robot stays MOVING, a frame never increases the distance left
\* to the next vertex of its path as long as the cursor stays where it is,
\* and when the cursor advances the robot stands exactly on the vertex it
\* reached (no progress yet on the next lane).
C11_ProgressMonotone ==
  [][ \A r \in Spawned :
        (robots[r].state = MOVING /\ robots'[r].state = MOVING)
        => IF robots'[r].current_path_index = robots[r].current_path_index
           THEN Remaining(robots'[r]) <= Remaining(robots[r])
           ELSE robots'[r].position =
                   get_scaled_position(graph, robots'[r].current_vertex)
    ]_vars

\* The vertices that a walk along lanes reaches from the vertices of from_set
\* in at most k lanes.
RECURSIVE WalkFrom(_, _, _)
WalkFrom(g, from_set, k) ==
  IF k = 0 THEN from_set
  ELSE WalkFrom(g, from_set \cup {w \in VertexIds(g) :
                                    \E v \in from_set :
                                       <<v, w>> \in LanePairs(g)}, k - 1)

\* For every graph and vertex, the vertices some route leads to.
Walks ==
  [g \in Graphs \cup {Yard} |-> [s \in VertexIds(g) |-> WalkFrom(g, {s}, g.nv)]]

\* C12: a path returned by get_shortest_path(s, e, r) starts at s, ends at e
\* and each two consecutive vertices of it are joined by a lane in that
\* direction; when e is reserved as the destination of a robot other than r,
\* or no route leads from s to e, the result is no path.
C12_PathValidity ==
  [][ ret'.op = "shortest_path"
      => LET p == ret'.path
             s == ret'.a
             e == ret'.b
         IN  /\ (ret'.result = "path") <=> (p # <<>>)
             /\ p # <<>>
                => /\ p[1] = s
                   /\ p[Len(p)] = e
                   /\ \A i \in 1 .. (Len(p) - 1) :
                         <<p[i], p[i + 1]>> \in LanePairs(graph)
             /\ ( \/ destination_reservations[e] \notin {None, ret'.robot}
                  \/ e \notin Walks[graph][s] )
                => p = <<>>
    ]_vars

\* C12 witness: a path of at least two lanes was just returned to a robot
\* while another robot holds a destination reservation.
C12_Witness ==
  /\ ret.op = "shortest_path" /\ ret.result = "path"
  /\ Len(ret.path) >= 3
  /\ \E v \in VertexIds(graph) :
        destination_reservations[v] \notin {None, ret.robot}

C16_OutOfRangeFails ==
  [][ (ret'.op \in {"spawn", "assign"} /\ ret'.a \notin VertexIds(graph))
      => /\ ret'.result = "false"
         /\ exc' = "none"
         /\ UNCHANGED <<robots, next_robot_id, vertex_occ, lane_occ,
                        reserved_paths, destination_reservations,
                        lane_reservations>>
    ]_vars

\* C14: spawn_robot(vertex) succeeds exactly when the vertex has no occupying
\* robot; on success one new robot exists, IDLE, at that vertex, the vertex is
\* occupied by it and no other robot changed; on failure no robot is created,
\* next_robot_id keeps its value and no occupancy changes.
C14_SpawnContract ==
  [][ (ret'.op = "spawn" /\ ret'.a \in VertexIds(graph))
      => LET v == ret'.a
             id == ret'.value
         IN  /\ (ret'.result = "true") <=> (vertex_occ[v] = None)
             /\ ret'.result = "true"
                => /\ id \notin DOMAIN robots
                   /\ DOMAIN robots' = DOMAIN robots \cup {id}
                   /\ robots'[id].state = IDLE
                   /\ robots'[id].current_vertex = v
                   /\ vertex_occ' = [vertex_occ EXCEPT ![v] = id]
                   /\ \A i \in DOMAIN robots : robots'[i] = robots[i]
             /\ ret'.result # "true"
                => /\ ret'.result = "false"
                   /\ UNCHANGED <<robots, next_robot_id, vertex_occ, lane_occ,
                                  reserved_paths, destination_reservations>>
    ]_vars

\* C14 witness: a spawn was just refused at the vertex where a robot spawned
\* earlier still stands and holds the occupancy.
C14_Witness ==
  /\ ret.op = "spawn" /\ ret.result = "false"
  /\ vertex_occ[ret.a] \in Spawned
  /\ robots[vertex_occ[ret.a]].current_vertex = ret.a
  /\ robots[vertex_occ[ret.a]].state = IDLE

\* C15: the registered robots are exactly the ids 0 .. next_robot_id - 1; the
\* counter never decreases, no robot is ever removed, and a successful spawn
\* returns the counter's value, greater than every id returned before, and
\* advances the counter by one.
C15_IdentityCounter ==
  /\ [](DOMAIN robots = 0 .. (next_robot_id - 1))
  /\ [][ /\ next_robot_id' >= next_robot_id
         /\ DOMAIN robots \subseteq DOMAIN robots'
         /\ (ret'.op = "spawn" /\ ret'.result = "true")
            => /\ ret'.value = next_robot_id
               /\ next_robot_id' = next_robot_id + 1
               /\ \A i \in DOMAIN robots : ret'.value > i
         /\ ~(ret'.op = "spawn" /\ ret'.result = "true")
            => next_robot_id' = next_robot_id
       ]_vars

\* C15 witness: a second spawn just returned identity 1 while robot 0, spawned
\* before, has completed a task.
C15_Witness ==
  /\ ret.op = "spawn" /\ ret.result = "true" /\ ret.value = 1
  /\ Spawned = {0, 1}
  /\ robots[0].state = COMPLETED

\* The registered robots in ascending order of id.
IdsInOrder ==
  [i \in 1 .. Cardinality(Spawned) |->
      CHOOSE r \in Spawned : Cardinality({q \in Spawned : q < r}) = i - 1]

\* A coordinator table that grants every lane, and one that denies robot r
\* every lane.
Granting == [lane \in LanePairs(graph) |-> NoReservation]
Denying(r) == [lane \in LanePairs(graph) |-> [robot |-> r + 1, left |-> 1]]

\* Robot r went through exactly one update of delta_time in this step.
AdvancedOnce(r, delta_time) ==
  \/ robots'[r] = update(graph, robots[r], Granting, r, delta_time).robot
  \/ robots'[r] = update(graph, robots[r], Denying(r), r, delta_time).robot

C18_ReserveVertexIdempotent ==
  [][ ret'.op = "reserve_vertex"
      => LET v == ret'.a
             r == ret'.robot
         IN  /\ vertex_occ[v] = None
                => /\ ret'.result = "true"
                   /\ vertex_occ' = [vertex_occ EXCEPT ![v] = r]
             /\ vertex_occ[v] = r
                => (ret'.result = "true" /\ vertex_occ' = vertex_occ)
             /\ vertex_occ[v] \notin {None, r}
                => (ret'.result = "false" /\ vertex_occ' = vertex_occ)
    ]_vars

\* C18 witness: reserve_vertex just succeeded for a robot on the vertex it
\* has held since it was spawned there and never left.
C18_Witness ==
  /\ ret.op = "reserve_vertex" /\ ret.result = "true"
  /\ ret.robot \in Spawned
  /\ robots[ret.robot].state = IDLE
  /\ trail[ret.robot] = <<ret.a>>
  /\ vertex_occ[ret.a] = ret.robot

\* C19: release_vertex by the robot that holds the vertex returns success
\* and leaves the vertex without occupant; by any other robot (or on a free
\* vertex) it returns a denial and changes no occupancy.
C19_ReleaseVertexFrees ==
  [][ ret'.op = "release_vertex"
      => LET v == ret'.a
             r == ret'.robot
         IN  IF vertex_occ[v] = r
             THEN /\ ret'.result = "true"
                  /\ vertex_occ' = [vertex_occ EXCEPT ![v] = None]
             ELSE /\ ret'.result = "false"
                  /\ vertex_occ' = vertex_occ
    ]_vars

\* C20: on an existing lane reserve_lane grants a free lane, succeeds with no
\* change for the holder and denies any other robot with no change;
\* release_lane by the holder frees the lane, by any other robot or on a free
\* lane it returns a denial and changes nothing; TrafficManager.occupy_lane
\* and TrafficManager.release_lane follow the same contract by lane index.
C20_LaneContract ==
  [][ LET r == ret'.robot
          i == FirstLane(graph, ret'.a, ret'.b)
      IN  /\ (ret'.op = "reserve_lane" /\ i # 0)
             => /\ lane_occ[i] = None
                   => /\ ret'.result = "true"
                      /\ lane_occ' = [lane_occ EXCEPT ![i] = r]
                /\ lane_occ[i] = r
                   => (ret'.result = "true" /\ lane_occ' = lane_occ)
                /\ lane_occ[i] \notin {None, r}
                   => (ret'.result = "false" /\ lane_occ' = lane_occ)
          /\ (ret'.op = "release_lane" /\ i # 0)
             => IF lane_occ[i] = r
                THEN /\ ret'.result = "true"
                     /\ lane_occ' = [lane_occ EXCEPT ![i] = None]
                ELSE (ret'.result = "false" /\ lane_occ' = lane_occ)
          /\ ret'.op = "occupy_lane"
             => IF lane_occupancy[ret'.a] \in {None, r}
                THEN /\ ret'.result = "true"
                     /\ lane_occupancy' =
                           [lane_occupancy EXCEPT ![ret'.a] = r]
                ELSE /\ ret'.result = "false"
                     /\ lane_occupancy' = lane_occupancy
          /\ ret'.op = "tm_release_lane"
             => IF lane_occupancy[ret'.a] = r
                THEN /\ ret'.result = "true"
                     /\ lane_occupancy' =
                           [lane_occupancy EXCEPT ![ret'.a] = None]
                ELSE /\ ret'.result = "false"
                     /\ lane_occupancy' = lane_occupancy
    ]_vars

\* C20 witness: release_lane was just denied to a robot on a lane that
\* another robot holds, and the lane is still held by that robot.
C20_Witness ==
  /\ ret.op = "release_lane" /\ ret.result = "false"
  /\ FirstLane(graph, ret.a, ret.b) # 0
  /\ lane_occ[FirstLane(graph, ret.a, ret.b)] \notin {None, ret.robot}

\* C21: is_vertex_available(vertex, robot) answers true exactly when the
\* vertex has no occupant or is occupied by the requester, and the vertex is
\* not reserved as a destination by a different robot, whatever the
\* reserved paths are.
C21_VertexAvailable ==
  [][ ret'.op = "vertex_available"
      => LET v == ret'.a
             r == ret'.robot
         IN  (ret'.result = "true")
             <=> /\ vertex_occ[v] \in {None, r}
                 /\ destination_reservations[v] \in {None, r}
    ]_vars

\* C22: in the traffic manager's own occupancy tables every lane and every
\* vertex has at most one occupant, whatever occupy / release calls were made.
\* (lane_occupancy holds one robot per lane index by construction.)
C22_SingleOccupant ==
  /\ \A i \in DOMAIN lane_occupancy : lane_occupancy[i] \in RobotIds \cup {None}
  /\ \A v \in DOMAIN vertex_occupancy : Len(vertex_occupancy[v]) <= 1

\* C23: can_use_lane(robot, lane) is true exactly when the lane is unoccupied
\* or occupied by that robot; occupy_lane grants exactly in those cases and,
\* when it denies, leaves the lane table unchanged.
C23_CanUseLane ==
  [][ LET r == ret'.robot
          i == ret'.a
      IN  /\ ret'.op = "can_use_lane"
             => /\ (ret'.result = "true") <=> (lane_occupancy[i] \in {None, r})
                /\ lane_occupancy' = lane_occupancy
          /\ ret'.op = "occupy_lane"
             => /\ (ret'.result = "true") <=> (lane_occupancy[i] \in {None, r})
                /\ ret'.result = "true"
                   => lane_occupancy' = [lane_occupancy EXCEPT ![i] = r]
                /\ ret'.result = "false" => lane_occupancy' = lane_occupancy
    ]_vars

\* C23 witness: can_use_lane just answered true to the robot that holds the
\* lane, after occupy_lane was used on it.
C23_Witness ==
  /\ ret.op = "can_use_lane" /\ ret.result = "true"
  /\ lane_occupancy[ret.a] = ret.robot

C25_AuditReadOnly ==
  [][ ret'.op = "check_conflicts"
      => /\ ret'.result = "done" /\ exc' = "none"
         /\ lane_occupancy' = lane_occupancy
         /\ vertex_occupancy' = vertex_occupancy
         /\ lane_occ' = lane_occ /\ vertex_occ' = vertex_occ
         /\ robots' = robots
    ]_vars

\* C26: pause_movement puts the robot in CHARGING from any state, no other
\* operation makes a robot enter CHARGING, and every robot's state is always
\* one of IDLE, MOVING, WAITING, CHARGING, COMPLETED.
C26_PauseIsCharging ==
  /\ [](\A r \in Spawned :
          robots[r].state \in {IDLE, MOVING, WAITING, CHARGING, COMPLETED})
  /\ [][ /\ ret'.op = "pause" => robots'[ret'.robot].state = CHARGING
         /\ \A r \in Spawned :
               (robots[r].state # CHARGING /\ robots'[r].state = CHARGING)
               => (ret'.op = "pause" /\ ret'.robot = r)
       ]_vars

C28_LoadValidates ==
  [][ ret'.op = "load"
      => LET malformed == definition.form # "ok"
             dangling == \E i \in DOMAIN definition.lanes :
                            \/ definition.lanes[i][1] >= Len(definition.vertices)
                            \/ definition.lanes[i][2] >= Len(definition.vertices)
         IN  /\ (malformed \/ dangling)
                => (ret'.result = "raise" /\ exc' # "none"
                    /\ graph' = Unloaded)
             /\ ret'.result = "true"
                => \A i \in DOMAIN graph'.lanes :
                      /\ graph'.lanes[i][1] \in VertexIds(graph')
                      /\ graph'.lanes[i][2] \in VertexIds(graph')
    ]_vars

\* C29: assign_task, update, pause_movement and resume_movement called on
\* one robot leave every field of every other robot unchanged.
C29_NoCrossRobotMutation ==
  [][ ret'.op \in {"assign", "update", "pause", "resume"}
      => \A other \in Spawned :
            other # ret'.robot => robots'[other] = robots[other]
    ]_vars

\* C29 witness: pause_movement just returned on one robot while the other
\* robot of the fleet is under way, not paused.
C29_Witness ==
  /\ ret.op = "pause"
  /\ robots[ret.robot].paused
  /\ \E other \in Spawned :
        /\ other # ret.robot
        /\ robots[other].state = MOVING
        /\ ~robots[other].paused
        /\ InTransit(other)

\* C30: while a MOVING robot is in transit from path[i] to path[i+1] it holds
\* the lane (path[i], path[i+1]): the lane's occupying_robot in the graph, or
\* at least an open window of the coordinator on the lane, names the robot.
C30_LaneHeldInTransit ==
  \A r \in Spawned :
     InTransit(r)
     => \/ lane_occ[FirstLane(graph, LaneOf(r)[1], LaneOf(r)[2])] = r
        \/ /\ lane_reservations[LaneOf(r)].robot = r
           /\ lane_reservations[LaneOf(r)].left > 0

\* C31: in a frame a robot's path cursor stays or advances by exactly one,
\* and when it advances the current vertex becomes the path vertex under the
\* new cursor; a robot becomes COMPLETED only in a frame, and only in the one
\* in which its cursor reaches the last vertex of its path; a COMPLETED
\* robot's current vertex is its target vertex.
C31_SnapAdvancesByOne ==
  /\ [](\A r \in Spawned :
          robots[r].state = COMPLETED
          => robots[r].current_vertex = robots[r].target_vertex)
  /\ [][ \A r \in Spawned :
           LET old == robots[r]
               new == robots'[r]
           IN  /\ (ret = NoRet /\ ret' = NoRet)
                  => /\ new.path = old.path
                     /\ new.current_path_index
                          \in {old.current_path_index,
                               old.current_path_index + 1}
                     /\ new.current_path_index = old.current_path_index
                          => new.current_vertex = old.current_vertex
                     /\ new.current_path_index = old.current_path_index + 1
                          => /\ new.current_path_index < Len(new.path)
                             /\ new.current_vertex
                                  = new.path[new.current_path_index + 1]
               /\ (old.state # COMPLETED /\ new.state = COMPLETED)
                  => /\ ret = NoRet /\ ret' = NoRet
                     /\ new.current_path_index = old.current_path_index + 1
                     /\ new.current_path_index + 1 = Len(new.path)
       ]_vars

\* C31 witness: a robot is COMPLETED at its target after a path of at least
\* two lanes, its cursor on the last vertex of the path and every vertex of
\* the path visited in order.
C31_Witness ==
  /\ ret = NoRet
  /\ \E r \in Spawned :
        /\ robots[r].state = COMPLETED
        /\ Len(robots[r].path) >= 3
        /\ robots[r].current_path_index + 1 = Len(robots[r].path)
        /\ robots[r].current_vertex = robots[r].target_vertex
        /\ trail[r] = robots[r].path

\* C32: a WAITING robot is re-checked in every frame: when the lane to the
\* next vertex of its path has no window of another robot, before and after
\* the frame, the robot has reserved the lane and is MOVING after the frame.
C32_WaitingRechecked ==
  [][ (ret = NoRet /\ ret' = NoRet)
      => \A r \in Spawned :
            LET rb == robots[r]
                lane == <<rb.path[rb.current_path_index + 1],
                          rb.path[rb.current_path_index + 2]>>
            IN  (/\ rb.state = WAITING
                 /\ lane_reservations[lane].robot \in {None, r}
                 /\ lane_reservations'[lane].robot \in {None, r})
                => /\ robots'[r].state = MOVING
                   /\ lane_reservations'[lane].robot = r
    ]_vars

\* C33: every destination reservation binds a vertex to the robot currently
\* tasked to reach it: if vertex v is reserved as destination by robot a then
\* a's target vertex is v, so no robot holds two destination reservations.
C33_ClaimIsCurrentTarget ==
  \A v \in DOMAIN destination_reservations :
     destination_reservations[v] # None
     => /\ destination_reservations[v] \in Spawned
        /\ robots[destination_reservations[v]].target_vertex = v

\* C34: a MOVING robot has a usable plan: its path is not empty and
\* current_path_index + 1 is a valid index of it, whatever spawns, tasks,
\* frames, pauses and resumes happened.
C34_MovingHasPlan ==
  \A r \in Spawned :
     robots[r].state = MOVING
     => /\ robots[r].path # <<>>
        /\ robots[r].current_path_index + 1 < Len(robots[r].path)

\* C35: no operation removes a destination reservation or a reserved path:
\* a vertex reserved as destination by a robot stays reserved by that robot
\* in every later state, a robot with a reserved path keeps having one, and
\* assign_task never succeeds on a vertex that another robot has reserved.
C35_ClaimsNeverRemoved ==
  [][ /\ \A v \in DOMAIN destination_reservations :
            destination_reservations[v] # None
            => destination_reservations'[v] = destination_reservations[v]
      /\ \A r \in RobotIds :
            reserved_paths[r] # <<>> => reserved_paths'[r] # <<>>
      /\ (ret'.op = "assign" /\ ret'.result = "true")
         => destination_reservations[ret'.a] \in {None, ret'.robot}
    ]_vars

\* C35 witness: a robot has completed its task and stands on its target,
\* which records no occupant, and assign_task to that vertex was just
\* refused to another, idle robot because the reservation is still there.
C35_Witness ==
  /\ ret.op = "assign" /\ ret.result = "false"
  /\ ret.robot \in Spawned /\ robots[ret.robot].state = IDLE
  /\ vertex_occ[ret.a] = None
  /\ find_path_astar(graph, robots[ret.robot].current_vertex, ret.a) # <<>>
  /\ \E a \in Spawned :
        /\ a # ret.robot
        /\ destination_reservations[ret.a] = a
        /\ robots[a].state = COMPLETED
        /\ robots[a].current_vertex = ret.a

\* C36: vertex occupancy agrees with the robots' positions: a robot that is
\* not in transit is recorded as the occupant of its current vertex, and an
\* occupied vertex is the current vertex (the departure vertex while in
\* transit) of the robot recorded as its occupant.
C36_OccupancyMatchesPositions ==
  /\ \A r \in Spawned :
        ~InTransit(r) => vertex_occ[robots[r].current_vertex] = r
  /\ \A v \in DOMAIN vertex_occ :
        vertex_occ[v] # None
        => /\ vertex_occ[v] \in Spawned
           /\ robots[vertex_occ[v]].current_vertex = v

\* C37: the reserved paths of two distinct robots share no vertex beyond each
\* path's first vertex, and an assign_task whose computed path shares such a
\* vertex with another robot's reserved path is refused and changes nothing.
C37_ReservedPathsDisjoint ==
  /\ [](\A a \in RobotIds, b \in RobotIds :
          a # b
          => Beyond(reserved_paths[a]) \cap Beyond(reserved_paths[b]) = {})
  /\ [][ (ret'.op = "assign" /\ ret'.robot \in Spawned)
         => LET r == ret'.robot
                route == get_shortest_path(graph, destination_reservations,
                             robots[r].current_vertex, ret'.a, r)
            IN  (\E o \in RobotIds \ {r} :
                    Beyond(route) \cap Beyond(reserved_paths[o]) # {})
                => /\ ret'.result = "false"
                   /\ UNCHANGED <<robots, vertex_occ, reserved_paths,
                                  destination_reservations>>
       ]_vars

\* C37 witness: assign_task was just refused to an idle robot whose target
\* is free and unreserved and can be reached, because the route runs over a
\* vertex of another robot's reserved path.
C37_Witness ==
  /\ ret.op = "assign" /\ ret.result = "false"
  /\ ret.robot \in Spawned /\ robots[ret.robot].state = IDLE
  /\ vertex_occ[ret.a] = None
  /\ destination_reservations[ret.a] = None
  /\ LET route == find_path_astar(graph, robots[ret.robot].current_vertex,
                                  ret.a)
     IN  /\ Len(route) >= 2
         /\ \E o \in Spawned \ {ret.robot} :
               Beyond(route) \cap Beyond(reserved_paths[o]) # {}

\* C38: update changes nothing for a robot that is not MOVING: called on such
\* a robot it leaves every robot record, the graph's occupancy, the reserved
\* paths, the destination reservations and the coordinator's tables as they
\* were and reports no event; in a frame of the fleet every robot that is
\* not MOVING keeps its record and the graph's tables are untouched.
C38_IdleUpdateNoop ==
  [][ /\ (ret'.op = "update" /\ robots[ret'.robot].state # MOVING)
         => /\ ret'.result = "none"
            /\ UNCHANGED <<robots, vertex_occ, lane_occ, reserved_paths,
                           destination_reservations, lane_reservations,
                           lane_occupancy, vertex_occupancy, exc>>
      /\ (ret = NoRet /\ ret' = NoRet)
         => /\ \A r \in Spawned :
                  robots[r].state # MOVING => robots'[r] = robots[r]
            /\ UNCHANGED <<vertex_occ, lane_occ, reserved_paths,
                           destination_reservations>>
    ]_vars

\* C38 witness: update just returned without event on a WAITING robot whose
\* next lane is free, and the robot is WAITING as before.
C38_Witness ==
  /\ ret.op = "update" /\ ret.result = "none"
  /\ robots[ret.robot].state = WAITING
  /\ LET rb == robots[ret.robot]
     IN  lane_reservations[<<rb.path[rb.current_path_index + 1],
                             rb.path[rb.current_path_index + 2]>>].robot
            = None

====
